---- MODULE Spec2Model ----
(***************************************************************************)
(* Grid node: the Model Manager (cache + persistent store + object store), *)
(* the /cmd command relay with snapshot and recovery, and the node         *)
(* registry, as state machines translated from app/main/model_manager.py   *)
(* and app/main/events.py.                                                 *)
(***************************************************************************)
EXTENDS Integers, Sequences, FiniteSets, TLC

\* ---------------------------------------------------------------- domains

\* Model ids used by the requests.
ModelIds == {"m1", "m2"}

\* Object / tensor ids and the payloads an object is given: object 1 comes
\* with two payloads, object 2 with one.
ObjIds == {1, 2}
PayloadsOf(k) == IF k = 1 THEN {10, 20} ELSE {10}

\* Serialized blobs: <<0, body>> is a plain model, <<1, body, id...>> a Plan
\* with the given state ids, anything else does not deserialize.
Blobs == {<<0, 7>>, <<1, 8, 1>>, <<1, 9, 1, 2>>, <<5>>}

\* A handler's n-th database call raises SQLAlchemyError when fault = n;
\* fault = 0 injects nothing.
MaxFault == 4
Faults == 0..MaxFault

\* Request handlers of the Model Manager that may run at the same time.
MaxHandlers == 2
Handlers == 1..MaxHandlers

\* Peers of the node registry and the addresses they are reached at.
MaxPeers == 2
PeerIds == 1..MaxPeers
Uris == {"ws://a", "ws://b"}

\* ---------------------------------------------------------------- helpers

Empty == [k \in {} |-> 0]

Put(f, k, v) == [x \in (DOMAIN f) \cup {k} |-> IF x = k THEN v ELSE f[x]]

Del(f, k) == [x \in (DOMAIN f) \ {k} |-> f[x]]

NoModel == [isPlan |-> FALSE, body |-> 0, state_ids |-> <<>>]

\* sy.serde.deserialize: fails on a blob that is no model.
CanDeserialize(b) ==
    /\ Len(b) >= 2
    /\ b[1] \in {0, 1}
    /\ (b[1] = 0 => Len(b) = 2)

Deserialize(b) ==
    [isPlan |-> b[1] = 1, body |-> b[2], state_ids |-> SubSeq(b, 3, Len(b))]

Models == {Deserialize(b) : b \in {x \in Blobs : CanDeserialize(x)}}

VARIABLES
    model_cache,     \* model_manager.model_cache: model_id -> model
    db_models,       \* table TorchModel: id -> serialized blob
    db_tensors,      \* table TorchTensor: id -> payload
    objects,         \* hook.local_worker._objects: id -> payload
    snapshot_img,    \* the durable snapshot of the object store
    known_workers,   \* hook.local_worker._known_workers: peer id -> uri
    connections,     \* the connections opened to peers: {[id, uri]}
    saved,           \* history: per model id, what the last save/delete call left
    fresh,           \* history: ids saved with no clearCache, delete or restart since
    boot,            \* history: what the last restart found in the snapshot
    handlers,        \* the request handlers that run side by side: call and position
    res              \* the last handler's call, result and event trace

vars == <<model_cache, db_models, db_tensors, objects, snapshot_img,
          known_workers, connections, saved, fresh, boot,
          handlers, res>>

\* ------------------------------------------------------------ event traces

Ev(c, name, arg) == [c EXCEPT !.trace = Append(@, <<name, arg>>)]

IsDbEvent(e) == e[1] \in {"db_commit", "db_query"}

DbCalls(tr) == Cardinality({i \in 1..Len(tr) : IsDbEvent(tr[i])})

\* The database call about to be made is the one the fault hits.
DbFails(c, fault) == fault # 0 /\ DbCalls(c.trace) + 1 = fault

Positions(tr, name) == {i \in 1..Len(tr) : tr[i][1] = name}

PositionsOf(tr, name, arg) == {i \in 1..Len(tr) : tr[i] = <<name, arg>>}

\* -------------------------------------------------------- handler contexts

NoRet == [outcome |-> "none", err |-> "", model |-> NoModel, ids |-> {}]

\* The state a handler works on, the events so far, the pending exception.
Ctx ==
    [cache |-> model_cache, models |-> db_models, tensors |-> db_tensors,
     objects |-> objects, trace |-> <<>>, exc |-> "", ret |-> NoRet]

\* return {"success": ..., ...}
Return(c, outcome, err, model, ids) ==
    [c EXCEPT !.exc = "",
              !.ret = [outcome |-> outcome, err |-> err, model |-> model, ids |-> ids]]

\* An exception no except clause of the handler catches.
Raise(c, err) ==
    [c EXCEPT !.exc = "",
              !.ret = [outcome |-> "raise", err |-> err, model |-> NoModel, ids |-> {}]]

Throw(c, exc) == [c EXCEPT !.exc = exc]

\* ------------------------------------------------------------ model cache

\* model_manager.is_model_in_cache
is_model_in_cache(c, model_id) == model_id \in DOMAIN c.cache

\* model_manager.save_model_to_cache. With serialized = TRUE the value is
\* deserialized first; the only such call (save_model's repair path) passes
\* the result dict of get_model_with_id, which is no serialized model.
save_model_to_cache(c, model, model_id, serialized) ==
    IF is_model_in_cache(c, model_id) THEN c
    ELSE IF serialized THEN Throw(Ev(c, "deserialize", 0), "DeserializeError")
    ELSE Ev([c EXCEPT !.cache = Put(@, model_id, model)], "cache_put", 0)

\* model_manager.remove_model_from_cache
remove_model_from_cache(c, model_id) ==
    IF is_model_in_cache(c, model_id)
    THEN Ev([c EXCEPT !.cache = Del(@, model_id)], "cache_del", 0)
    ELSE c

\* ------------------------------------------------------- persistent store

\* Faulty variant of save_model_in_db: the write replaces a record with the same id.
save_model_in_db_overwrite(c, serialized_model, model_id, fault) ==
    LET c1 == Ev(c, "db_commit", 0) IN
    IF DbFails(c, fault) THEN Throw(c1, "SQLAlchemyError")
    ELSE [c1 EXCEPT !.models = Put(@, model_id, serialized_model)]

\* model_manager._save_model_in_db: INSERT and commit; the primary key
\* rejects a second record with the same id.
save_model_in_db(c, serialized_model, model_id, fault) ==
    LET c1 == Ev(c, "db_commit", 0) IN
    IF DbFails(c, fault) THEN Throw(c1, "SQLAlchemyError")
    ELSE IF model_id \in DOMAIN c.models THEN Throw(c1, "IntegrityError")
    ELSE [c1 EXCEPT !.models = Put(@, model_id, serialized_model)]

\* local_worker_utils.get_obj: the object registered under id, if any.
has_obj(c, id) == id \in DOMAIN c.objects

get_obj(c, id) == c.objects[id]

\* local_worker_utils.register_obj: the object is stored under id.
register_obj(c, obj, id) ==
    Ev([c EXCEPT !.objects = Put(@, id, obj)], "register", id)

\* The loop of _save_states_in_db: get_obj(state_id).data for every state
\* id, in order; for an object that is not there the lookup, or the read of
\* .data, raises, and the loop stops.
RECURSIVE get_objs(_, _)
get_objs(c, ids) ==
    IF ids = <<>> THEN c
    ELSE LET c1 == Ev(c, "get_obj", Head(ids)) IN
         IF ~has_obj(c, Head(ids)) THEN Throw(c1, "ObjectNotFound")
         ELSE get_objs(c1, Tail(ids))

SeqRange(s) == {s[i] : i \in 1..Len(s)}

\* model_manager._save_states_in_db: one TorchTensor per state id, from the
\* object store, added and committed in one transaction.
save_states_in_db(c, model, fault) ==
    LET c1 == get_objs(c, model.state_ids) IN
    IF c1.exc # "" THEN c1
    ELSE LET c2 == Ev(c1, "db_commit", 1)
             ids == SeqRange(model.state_ids)
         IN IF DbFails(c1, fault) THEN Throw(c2, "SQLAlchemyError")
            ELSE IF \/ ids \cap DOMAIN c1.tensors # {}
                    \/ Cardinality(ids) # Len(model.state_ids)
                 THEN Throw(c2, "IntegrityError")
            ELSE [c2 EXCEPT !.tensors =
                     [k \in (DOMAIN @) \cup ids |->
                         IF k \in ids THEN get_obj(c1, k) ELSE @[k]]]

\* Faulty variant of retrieve_state: only the first state id is rehydrated.
retrieve_state_head_only(c, ids, fault) ==
    IF ids = <<>> THEN c
    ELSE LET sid == Head(ids)
             c1 == Ev(c, "db_query", sid)
         IN IF DbFails(c, fault) THEN Throw(c1, "SQLAlchemyError")
            ELSE IF sid \notin DOMAIN c.tensors THEN Throw(c1, "AttributeError")
            ELSE register_obj(c1, c.tensors[sid], sid)

\* model_manager._retrieve_state: per state id, the tensor record is read
\* and registered in the object store (local_worker_utils.register_obj).
\* A missing record is None, and None.object raises AttributeError.
RECURSIVE retrieve_state(_, _, _)
retrieve_state(c, ids, fault) ==
    IF ids = <<>> THEN c
    ELSE LET sid == Head(ids)
             c1 == Ev(c, "db_query", sid)
         IN IF DbFails(c, fault) THEN Throw(c1, "SQLAlchemyError")
            ELSE IF sid \notin DOMAIN c.tensors THEN Throw(c1, "AttributeError")
            ELSE retrieve_state(register_obj(c1, c.tensors[sid], sid),
                                Tail(ids), fault)

\* ------------------------------------------------------------ Model Manager

\* Faulty variant of get_model_in: the cache is not consulted.
get_model_in_no_cache(c, model_id, fault) ==
    LET c1 == Ev(c, "db_query", 0) IN
    IF DbFails(c, fault) THEN Return(c1, "fail", "SQLAlchemyError", NoModel, {})
    ELSE IF model_id \notin DOMAIN c.models
         THEN Return(c1, "fail", "NotFound", NoModel, {})
    ELSE IF ~CanDeserialize(c.models[model_id])
         THEN Raise(Ev(c1, "deserialize", 0), "DeserializeError")
    ELSE LET model == Deserialize(c.models[model_id])
             c2 == Ev(c1, "deserialize", 0)
             c3 == IF model.isPlan
                   THEN retrieve_state(c2, model.state_ids, fault)
                   ELSE c2
         IN IF c3.exc = "SQLAlchemyError"
            THEN Return(c3, "fail", "SQLAlchemyError", NoModel, {})
            ELSE IF c3.exc # "" THEN Raise(c3, c3.exc)
            ELSE Return(save_model_to_cache(c3, model, model_id, FALSE),
                        "ok", "", model, {})

\* model_manager.get_model_with_id, on a context
get_model_in(c, model_id, fault) ==
    IF is_model_in_cache(c, model_id)
    THEN Return(c, "ok", "", c.cache[model_id], {})
    ELSE LET c1 == Ev(c, "db_query", 0) IN
         IF DbFails(c, fault) THEN Return(c1, "fail", "SQLAlchemyError", NoModel, {})
         ELSE IF model_id \notin DOMAIN c.models
              THEN Return(c1, "fail", "NotFound", NoModel, {})
         ELSE IF ~CanDeserialize(c.models[model_id])
              THEN Raise(Ev(c1, "deserialize", 0), "DeserializeError")
         ELSE LET model == Deserialize(c.models[model_id])
                  c2 == Ev(c1, "deserialize", 0)
                  c3 == IF model.isPlan
                        THEN retrieve_state(c2, model.state_ids, fault)
                        ELSE c2
              IN IF c3.exc = "SQLAlchemyError"
                 THEN Return(c3, "fail", "SQLAlchemyError", NoModel, {})
                 ELSE IF c3.exc # "" THEN Raise(c3, c3.exc)
                 ELSE Return(save_model_to_cache(c3, model, model_id, FALSE),
                             "ok", "", model, {})

\* model_manager.get_model_with_id
get_model_with_id(model_id, fault) == get_model_in(Ctx, model_id, fault)

\* save_model's except clause: on IntegrityError the stored model is fetched
\* and put in the cache; the call reports the failure either way.
save_except(c, model_id, fault) ==
    IF c.exc = "IntegrityError"
    THEN LET g == get_model_in(Throw(c, ""), model_id, fault) IN
         IF g.ret.outcome = "raise" THEN g
         ELSE LET h == save_model_to_cache(g, g.ret, model_id, TRUE) IN
              IF h.exc # "" THEN Raise(h, h.exc)
              ELSE Return(h, "fail", "IntegrityError", NoModel, {})
    ELSE Return(c, "fail", c.exc, NoModel, {})

\* model_manager.save_model
save_model(serialized_model, model_id, fault) ==
    IF is_model_in_cache(Ctx, model_id)
    THEN Return(Ctx, "fail", "AlreadyExists", NoModel, {})
    ELSE LET c1 == save_model_in_db(Ctx, serialized_model, model_id, fault) IN
         IF c1.exc # "" THEN save_except(c1, model_id, fault)
         ELSE IF ~CanDeserialize(serialized_model)
              THEN Raise(Ev(c1, "deserialize", 0), "DeserializeError")
         ELSE LET model == Deserialize(serialized_model)
                  c2 == save_model_to_cache(Ev(c1, "deserialize", 0),
                                            model, model_id, FALSE)
                  c3 == IF model.isPlan
                        THEN save_states_in_db(c2, model, fault)
                        ELSE c2
              IN IF c3.exc = "" THEN Return(c3, "ok", "", NoModel, {})
                 ELSE IF c3.exc \in {"IntegrityError", "SQLAlchemyError"}
                      THEN save_except(c3, model_id, fault)
                 ELSE Raise(c3, c3.exc)

\* Faulty variant of delete_model: the cache entry is left in place.
delete_model_keep_cache(model_id, fault) ==
    LET c2 == Ev(Ctx, "db_query", 0)
    IN IF DbFails(Ctx, fault) THEN Return(c2, "fail", "SQLAlchemyError", NoModel, {})
       ELSE IF model_id \notin DOMAIN Ctx.models
            THEN Return(c2, "fail", "UnmappedInstanceError", NoModel, {})
       ELSE LET c3 == Ev(c2, "db_commit", 0) IN
            IF DbFails(c2, fault)
            THEN Return(c3, "fail", "SQLAlchemyError", NoModel, {})
            ELSE Return([c3 EXCEPT !.models = Del(@, model_id)],
                        "ok", "", NoModel, {})

\* Faulty variant of delete_model: the tensor records of a Plan's state ids are
\* deleted with the model record.
delete_model_with_tensors(model_id, fault) ==
    LET c1 == remove_model_from_cache(Ctx, model_id)
        c2 == Ev(c1, "db_query", 0)
    IN IF DbFails(c1, fault) THEN Return(c2, "fail", "SQLAlchemyError", NoModel, {})
       ELSE IF model_id \notin DOMAIN c1.models
            THEN Return(c2, "fail", "UnmappedInstanceError", NoModel, {})
       ELSE LET c3 == Ev(c2, "db_commit", 0)
                ids == IF CanDeserialize(c1.models[model_id])
                       THEN SeqRange(Deserialize(c1.models[model_id]).state_ids)
                       ELSE {}
            IN IF DbFails(c2, fault)
               THEN Return(c3, "fail", "SQLAlchemyError", NoModel, {})
               ELSE Return([c3 EXCEPT !.models = Del(@, model_id),
                                      !.tensors = [k \in (DOMAIN @) \ ids |-> @[k]]],
                           "ok", "", NoModel, {})

\* Faulty variant of delete_model: the delete is never committed.
delete_model_no_commit(model_id, fault) ==
    LET c1 == remove_model_from_cache(Ctx, model_id)
        c2 == Ev(c1, "db_query", 0)
    IN IF DbFails(c1, fault) THEN Return(c2, "fail", "SQLAlchemyError", NoModel, {})
       ELSE IF model_id \notin DOMAIN c1.models
            THEN Return(c2, "fail", "UnmappedInstanceError", NoModel, {})
       ELSE Return(c2, "ok", "", NoModel, {})

\* model_manager.delete_model. db.session.delete(None) raises
\* UnmappedInstanceError, which is an SQLAlchemyError.
delete_model(model_id, fault) ==
    LET c1 == remove_model_from_cache(Ctx, model_id)
        c2 == Ev(c1, "db_query", 0)
    IN IF DbFails(c1, fault) THEN Return(c2, "fail", "SQLAlchemyError", NoModel, {})
       ELSE IF model_id \notin DOMAIN c1.models
            THEN Return(c2, "fail", "UnmappedInstanceError", NoModel, {})
       ELSE LET c3 == Ev(c2, "db_commit", 0) IN
            IF DbFails(c2, fault)
            THEN Return(c3, "fail", "SQLAlchemyError", NoModel, {})
            ELSE Return([c3 EXCEPT !.models = Del(@, model_id)],
                        "ok", "", NoModel, {})

\* Faulty variant of list_models: the ids are taken from the cache.
list_models_from_cache(fault) ==
    LET c1 == Ev(Ctx, "db_query", 0) IN
    IF DbFails(Ctx, fault) THEN Return(c1, "fail", "SQLAlchemyError", NoModel, {})
    ELSE Return(c1, "ok", "", NoModel, DOMAIN c1.cache)

\* model_manager.list_models
list_models(fault) ==
    LET c1 == Ev(Ctx, "db_query", 0) IN
    IF DbFails(Ctx, fault) THEN Return(c1, "fail", "SQLAlchemyError", NoModel, {})
    ELSE Return(c1, "ok", "", NoModel, DOMAIN c1.models)

\* model_manager.clear_cache
clear_cache == Return([Ctx EXCEPT !.cache = Empty], "ok", "", NoModel, {})

\* ------------------------------------------------------- transport encoding

HexDigits == <<"0", "1", "2", "3", "4", "5", "6", "7",
               "8", "9", "a", "b", "c", "d", "e", "f">>

IsHex(ch) == \E i \in 1..Len(HexDigits) : HexDigits[i] = ch

HexVal(ch) == (CHOOSE i \in 1..Len(HexDigits) : HexDigits[i] = ch) - 1

\* binascii.unhexlify: an even number of hex digits, two per byte.
CanUnhexlify(s) == Len(s) % 2 = 0 /\ \A i \in 1..Len(s) : IsHex(s[i])

unhexlify(s) ==
    [i \in 1..(Len(s) \div 2) |-> 16 * HexVal(s[2 * i - 1]) + HexVal(s[2 * i])]

RECURSIVE hexlify(_)
hexlify(bytes) ==
    IF bytes = <<>> THEN <<>>
    ELSE <<HexDigits[(Head(bytes) \div 16) + 1], HexDigits[(Head(bytes) % 16) + 1]>>
         \o hexlify(Tail(bytes))

\* str(b"...") of a bytes object holding hex digits: b'...'
StrOfBytes(text) == <<"b", "'">> \o text \o <<"'">>

\* encoded_message[2:-1]
StripBytesLiteral(s) == SubSeq(s, 3, Len(s) - 1)

\* Inbound /cmd messages: b'0a1f' (well formed), b'' (well formed, empty),
\* b'0a1' (odd length), b'zz' (no hex digits), and one without "message".
Messages ==
    {[has |-> TRUE, message |-> <<"b", "'", "0", "a", "1", "f", "'">>],
     [has |-> TRUE, message |-> <<"b", "'", "'">>],
     [has |-> TRUE, message |-> <<"b", "'", "0", "a", "1", "'">>],
     [has |-> TRUE, message |-> <<"b", "'", "z", "z", "'">>],
     [has |-> FALSE, message |-> <<>>]}

WellFormed(m) == m.has /\ CanUnhexlify(StripBytesLiteral(m.message))

\* What the execution engine does to the object store with one command:
\* it registers an object, removes one, or leaves the store alone.
EngineEffects ==
    {[kind |-> "nop", id |-> 0, data |-> 0]}
    \cup UNION {{[kind |-> "set", id |-> k, data |-> d] : d \in PayloadsOf(k)} :
                 k \in ObjIds}
    \cup {[kind |-> "del", id |-> k, data |-> 0] : k \in ObjIds}

ApplyEffect(objs, eff) ==
    IF eff.kind = "set" THEN Put(objs, eff.id, eff.data)
    ELSE IF eff.kind = "del" THEN Del(objs, eff.id)
    ELSE objs

\* The engine's response bytes.
Responses == {<<>>, <<171, 5>>}

\* ----------------------------------------------------------- Command Relay

\* emit("/cmd-response", ...)
Emit(c, isError, payload, error) ==
    [Ev(c, "emit", 0) EXCEPT !.emits =
        Append(@, [isError |-> isError, payload |-> payload, error |-> error])]

\* persistence.utils.recover_objects: the object store is loaded from the
\* last snapshot.
recover_objects(c, fails) ==
    LET c1 == Ev(c, "recover", 0) IN
    IF fails THEN Throw(c1, "RecoveryError")
    ELSE [c1 EXCEPT !.objects = c.snapshot]

\* worker._recv_msg: the external execution engine.
recv_msg(c, decoded, eff, resp, fails) ==
    LET c1 == Ev([c EXCEPT !.objects = ApplyEffect(@, eff)], "execute", 0) IN
    IF fails THEN Throw(c1, "ExecutionError")
    ELSE [c1 EXCEPT !.response = resp]

\* persistence.utils.snapshot: the full object store is written.
snapshot(c, fails) ==
    LET c1 == Ev(c, "snapshot", 0) IN
    IF fails THEN Throw(c1, "SnapshotError")
    ELSE [c1 EXCEPT !.snapshot = c.objects]

RelayCtx ==
    [objects |-> objects, snapshot |-> snapshot_img, trace |-> <<>>,
     exc |-> "", response |-> <<>>, emits |-> <<>>]

\* Faulty variant of cmd: the response is emitted before the snapshot is taken.
cmd_emit_before_snapshot(message, eff, resp, recFails, engFails, snapFails) ==
    LET c1 == IF Cardinality(DOMAIN objects) = 0
              THEN recover_objects(RelayCtx, recFails)
              ELSE RelayCtx
    IN IF c1.exc # "" THEN Emit(c1, TRUE, <<>>, c1.exc)
       ELSE IF ~message.has THEN Emit(c1, TRUE, <<>>, "KeyError")
       ELSE IF ~CanUnhexlify(StripBytesLiteral(message.message))
            THEN Emit(Ev(c1, "decode", 0), TRUE, <<>>, "binascii.Error")
       ELSE LET decoded == unhexlify(StripBytesLiteral(message.message))
                c2 == recv_msg(Ev(c1, "decode", 0), decoded, eff, resp, engFails)
            IN IF c2.exc # "" THEN Emit(c2, TRUE, <<>>, c2.exc)
               ELSE LET encoded_response == StrOfBytes(hexlify(c2.response))
                        c3 == snapshot(Emit(c2, FALSE, encoded_response, ""),
                                       snapFails)
                    IN IF c3.exc # "" THEN Emit(c3, TRUE, <<>>, c3.exc)
                       ELSE c3

\* Faulty variant of cmd: the cold-check is inverted (recovery when the store holds
\* objects).
cmd_inverted_cold_check(message, eff, resp, recFails, engFails, snapFails) ==
    LET c1 == IF Cardinality(DOMAIN objects) # 0
              THEN recover_objects(RelayCtx, recFails)
              ELSE RelayCtx
    IN IF c1.exc # "" THEN Emit(c1, TRUE, <<>>, c1.exc)
       ELSE IF ~message.has THEN Emit(c1, TRUE, <<>>, "KeyError")
       ELSE IF ~CanUnhexlify(StripBytesLiteral(message.message))
            THEN Emit(Ev(c1, "decode", 0), TRUE, <<>>, "binascii.Error")
       ELSE LET decoded == unhexlify(StripBytesLiteral(message.message))
                c2 == recv_msg(Ev(c1, "decode", 0), decoded, eff, resp, engFails)
            IN IF c2.exc # "" THEN Emit(c2, TRUE, <<>>, c2.exc)
               ELSE LET encoded_response == StrOfBytes(hexlify(c2.response))
                        c3 == snapshot(c2, snapFails)
                    IN IF c3.exc # "" THEN Emit(c3, TRUE, <<>>, c3.exc)
                       ELSE Emit(c3, FALSE, encoded_response, "")

\* Faulty variant of cmd: the snapshot is taken before the engine runs.
cmd_snapshot_before_execute(message, eff, resp, recFails, engFails, snapFails) ==
    LET c1 == IF Cardinality(DOMAIN objects) = 0
              THEN recover_objects(RelayCtx, recFails)
              ELSE RelayCtx
    IN IF c1.exc # "" THEN Emit(c1, TRUE, <<>>, c1.exc)
       ELSE IF ~message.has THEN Emit(c1, TRUE, <<>>, "KeyError")
       ELSE IF ~CanUnhexlify(StripBytesLiteral(message.message))
            THEN Emit(Ev(c1, "decode", 0), TRUE, <<>>, "binascii.Error")
       ELSE LET decoded == unhexlify(StripBytesLiteral(message.message))
                c2 == snapshot(Ev(c1, "decode", 0), snapFails)
            IN IF c2.exc # "" THEN Emit(c2, TRUE, <<>>, c2.exc)
               ELSE LET c3 == recv_msg(c2, decoded, eff, resp, engFails) IN
                    IF c3.exc # "" THEN Emit(c3, TRUE, <<>>, c3.exc)
                    ELSE Emit(c3, FALSE, StrOfBytes(hexlify(c3.response)), "")

\* events.cmd
cmd(message, eff, resp, recFails, engFails, snapFails) ==
    LET c1 == IF Cardinality(DOMAIN objects) = 0
              THEN recover_objects(RelayCtx, recFails)
              ELSE RelayCtx
    IN IF c1.exc # "" THEN Emit(c1, TRUE, <<>>, c1.exc)
       ELSE IF ~message.has THEN Emit(c1, TRUE, <<>>, "KeyError")
       ELSE IF ~CanUnhexlify(StripBytesLiteral(message.message))
            THEN Emit(Ev(c1, "decode", 0), TRUE, <<>>, "binascii.Error")
       ELSE LET decoded == unhexlify(StripBytesLiteral(message.message))
                c2 == recv_msg(Ev(c1, "decode", 0), decoded, eff, resp, engFails)
            IN IF c2.exc # "" THEN Emit(c2, TRUE, <<>>, c2.exc)
               ELSE LET encoded_response == StrOfBytes(hexlify(c2.response))
                        c3 == snapshot(c2, snapFails)
                    IN IF c3.exc # "" THEN Emit(c3, TRUE, <<>>, c3.exc)
                       ELSE Emit(c3, FALSE, encoded_response, "")

\* ------------------------------------------------------------ Node Registry

ConnectMsgs ==
    {[hasId |-> TRUE, id |-> p, uri |-> u] : p \in PeerIds, u \in Uris}
    \cup {[hasId |-> FALSE, id |-> 0, uri |-> u] : u \in Uris}

\* What creating and connecting a WebsocketGridClient can come to: connected
\* (and registered), failed after the worker was registered, failed before.
ConnectOutcomes == {"connected", "failed_registered", "failed_unregistered"}

RegistryCtx ==
    [known |-> known_workers, conns |-> connections, trace |-> <<>>,
     exc |-> "", response |-> <<>>, emits |-> <<>>]

\* gr.WebsocketGridClient(hook, uri, id=id) and new_worker.connect()
new_worker_connect(c, id, uri, outcome) ==
    LET c1 == Ev(c, "connect_attempt", id) IN
    IF outcome = "connected"
    THEN [c1 EXCEPT !.known = Put(@, id, uri),
                    !.conns = @ \cup {[id |-> id, uri |-> uri]}]
    ELSE IF outcome = "failed_registered"
         THEN Throw([c1 EXCEPT !.known = Put(@, id, uri)], "ConnectionError")
    ELSE Throw(c1, "ConnectionError")

\* Faulty variant of connect_node: the known peers are not consulted.
connect_node_no_guard(msg, outcome) ==
    IF ~msg.hasId THEN Emit(RegistryCtx, TRUE, <<>>, "KeyError")
    ELSE LET c1 == new_worker_connect(RegistryCtx, msg.id, msg.uri, outcome) IN
         IF c1.exc # "" THEN Emit(c1, TRUE, <<>>, c1.exc)
         ELSE Emit(c1, FALSE, <<>>, "")

\* events.connect_node
connect_node(msg, outcome) ==
    IF ~msg.hasId THEN Emit(RegistryCtx, TRUE, <<>>, "KeyError")
    ELSE IF msg.id \notin DOMAIN known_workers
         THEN LET c1 == new_worker_connect(RegistryCtx, msg.id, msg.uri, outcome) IN
              IF c1.exc # "" THEN Emit(c1, TRUE, <<>>, c1.exc)
              ELSE Emit(c1, FALSE, <<>>, "")
    ELSE RegistryCtx

\* ----------------------------------------------------------------- history

Unknown == <<>>
Deleted == <<-1>>

\* saved[id]: the blob of the last successful save of id, Deleted after a
\* successful delete, Unknown otherwise (never saved, or a later save or
\* delete call on id did not succeed where it could have changed the store).
SavedAfterSave(id, blob, outcome) ==
    IF outcome = "ok" THEN [saved EXCEPT ![id] = blob]
    ELSE IF saved[id] = Deleted THEN [saved EXCEPT ![id] = Unknown]
    ELSE saved

SavedAfterDelete(id, outcome) ==
    IF outcome = "ok" THEN [saved EXCEPT ![id] = Deleted]
    ELSE IF saved[id] \in Blobs THEN [saved EXCEPT ![id] = Unknown]
    ELSE saved

\* boot: since the last restart, whether the relay's engine has yet to be
\* called (first), and the ids of the snapshot found at that restart that no
\* command has removed since (kept). Before any restart there is nothing to
\* keep.
NotRestarted == [first |-> FALSE, kept |-> {}]

BootAfterCmd(tr, eff) ==
    IF Positions(tr, "execute") = {} THEN boot
    ELSE [first |-> FALSE,
          kept |-> IF eff.kind = "del" THEN boot.kept \ {eff.id} ELSE boot.kept]

\* A handler that serves no request.
Idle == [op |-> "idle", pc |-> "", id |-> "", blob |-> <<>>, result |-> <<>>]

\* ------------------------------------------------------------------ actions

MMRes(op, id, blob, fault, r) ==
    [op |-> op, id |-> id, blob |-> blob,
     faulted |-> (fault # 0 /\ DbCalls(r.trace) >= fault),
     outcome |-> r.ret.outcome, err |-> r.ret.err, model |-> r.ret.model,
     ids |-> r.ret.ids, trace |-> r.trace]

MMApply(r) ==
    /\ model_cache' = r.cache
    /\ db_models' = r.models
    /\ db_tensors' = r.tensors
    /\ objects' = r.objects

Init ==
    /\ model_cache = Empty
    /\ db_models = Empty
    /\ db_tensors = Empty
    /\ objects = Empty
    /\ snapshot_img = Empty
    /\ known_workers = Empty
    /\ connections = {}
    /\ saved = [id \in ModelIds |-> Unknown]
    /\ fresh = {}
    /\ boot = NotRestarted
    /\ handlers = [h \in Handlers |-> Idle]
    /\ res = [op |-> "init"]

SaveOn(ids, faults) ==
    \E blob \in Blobs, id \in ids, fault \in faults :
        LET r == save_model(blob, id, fault) IN
        /\ MMApply(r)
        /\ res' = MMRes("save", id, blob, fault, r)
        /\ saved' = SavedAfterSave(id, blob, r.ret.outcome)
        /\ fresh' = IF r.ret.outcome = "ok" THEN fresh \cup {id} ELSE fresh
        /\ UNCHANGED <<snapshot_img, known_workers, connections, boot, handlers>>

GetOn(ids, faults) ==
    \E id \in ids, fault \in faults :
        LET r == get_model_with_id(id, fault) IN
        /\ MMApply(r)
        /\ res' = MMRes("get", id, <<>>, fault, r)
        /\ UNCHANGED <<snapshot_img, known_workers, connections, saved, fresh,
                       boot, handlers>>

DeleteOn(ids, faults) ==
    \E id \in ids, fault \in faults :
        LET r == delete_model(id, fault) IN
        /\ MMApply(r)
        /\ res' = MMRes("delete", id, <<>>, fault, r)
        /\ saved' = SavedAfterDelete(id, r.ret.outcome)
        /\ fresh' = fresh \ {id}
        /\ UNCHANGED <<snapshot_img, known_workers, connections, boot, handlers>>

ListOn(faults) ==
    \E fault \in faults :
        LET r == list_models(fault) IN
        /\ MMApply(r)
        /\ res' = MMRes("list", "", <<>>, fault, r)
        /\ UNCHANGED <<snapshot_img, known_workers, connections, saved, fresh,
                       boot, handlers>>

\* The requests with a database that answers every call.
Save == SaveOn(ModelIds, {0})

Get == GetOn(ModelIds, {0})

Delete == DeleteOn(ModelIds, {0})

List == ListOn({0})

\* The requests on one model id with a database call that may fail.
SaveF == SaveOn({"m1"}, Faults)

GetF == GetOn({"m1"}, Faults)

DeleteF == DeleteOn({"m1"}, Faults)

ListF == ListOn(Faults)

ClearCache ==
    LET r == clear_cache IN
    /\ MMApply(r)
    /\ res' = MMRes("clear_cache", "", <<>>, 0, r)
    /\ fresh' = {}
    /\ UNCHANGED <<snapshot_img, known_workers, connections, saved, boot, handlers>>

\* One run of the relay: what the engine does and answers, and the step (if
\* any) that fails. Runs that differ only in what a failed step leaves unused
\* are the same run.
CmdRuns ==
    {[eff |-> e, resp |-> r, failAt |-> "none"] : e \in EngineEffects, r \in Responses}
    \cup {[eff |-> e, resp |-> <<>>, failAt |-> f] :
             e \in EngineEffects, f \in {"engine", "snapshot"}}
    \cup {[eff |-> [kind |-> "nop", id |-> 0, data |-> 0], resp |-> <<>>,
           failAt |-> "recover"]}

\* Runs in which no step fails and the engine answers the empty response.
QuietRuns == {r \in CmdRuns : r.failAt = "none" /\ r.resp = <<>>}

CmdOn(messages, runs) ==
    \E message \in messages, run \in runs :
        LET r == cmd(message, run.eff, run.resp, run.failAt = "recover",
                     run.failAt = "engine", run.failAt = "snapshot") IN
        /\ objects' = r.objects
        /\ snapshot_img' = r.snapshot
        /\ res' = [op |-> "cmd", message |-> message, cold |-> DOMAIN objects = {},
                   resp |-> run.resp, failAt |-> run.failAt,
                   trace |-> r.trace, emits |-> r.emits]
        /\ boot' = BootAfterCmd(r.trace, run.eff)
        /\ UNCHANGED <<model_cache, db_models, db_tensors, known_workers,
                       connections, saved, fresh, handlers>>

\* A /cmd message of any kind, with any run.
Cmd == CmdOn(Messages, CmdRuns)

\* A well-formed /cmd message whose run does not fail.
CmdQuiet == CmdOn({m \in Messages : WellFormed(m) /\ Len(m.message) > 3}, QuietRuns)

ConnectNode ==
    \E msg \in ConnectMsgs, outcome \in ConnectOutcomes :
        LET r == connect_node(msg, outcome) IN
        /\ known_workers' = r.known
        /\ connections' = r.conns
        /\ res' = [op |-> "connect_node", msg |-> msg, trace |-> r.trace,
                   emits |-> r.emits, known_before |-> known_workers,
                   conns_before |-> connections]
        /\ UNCHANGED <<model_cache, db_models, db_tensors, objects,
                       snapshot_img, saved, fresh, boot, handlers>>

\* A restart of the node process: what lives in memory starts empty again
\* (model_cache = dict(), a new TorchHook and local worker); the database
\* and the snapshot stay.
Restart ==
    /\ model_cache' = Empty
    /\ objects' = Empty
    /\ known_workers' = Empty
    /\ connections' = {}
    /\ fresh' = {}
    /\ boot' = [first |-> TRUE, kept |-> DOMAIN snapshot_img]
    /\ handlers' = [h \in Handlers |-> Idle]
    /\ res' = [op |-> "restart"]
    /\ UNCHANGED <<db_models, db_tensors, snapshot_img, saved>>

\* ------------------------------------------- handlers running side by side

\* The module has no lock: a handler that runs beside another one takes one
\* step at a time, a step being a check of the cache, a database call, or
\* the code between two of those.

\* The model id the concurrent requests are about, and the requests.
ConcurrentIds == {"m1"}

Calls ==
    {[op |-> "save", blob |-> b] : b \in Blobs}
    \cup {[op |-> "get", blob |-> <<>>], [op |-> "delete", blob |-> <<>>]}

FirstPc(op) ==
    IF op = "save" THEN "save_check"
    ELSE IF op = "get" THEN "get_check"
    ELSE "delete_cache"

\* What a step leaves alone.
StepFrame ==
    UNCHANGED <<snapshot_img, known_workers, connections, saved, fresh, boot>>

\* Handler h moves on to position pc, holding result.
Goto(h, pc, result) ==
    /\ handlers' = [handlers EXCEPT ![h].pc = pc, ![h].result = result]
    /\ res' = [op |-> "step"]

\* Handler h returns (or raises) and is free again.
Done(h, outcome, err) ==
    /\ handlers' = [handlers EXCEPT ![h] = Idle]
    /\ res' = [op |-> "done", call |-> handlers[h].op, id |-> handlers[h].id,
               outcome |-> outcome, err |-> err]

\* get_model_with_id returns: to its caller, which is the request or the
\* except clause of save_model.
GetReturns(h, outcome, err) ==
    IF handlers[h].op = "save"
    THEN Goto(h, "repair_cache", <<>>)
    ELSE Done(h, outcome, err)

\* A request arrives at a free handler.
Call(h) ==
    /\ handlers[h].op = "idle"
    /\ \E call \in Calls, id \in ConcurrentIds :
           handlers' = [handlers EXCEPT ![h] =
                           [op |-> call.op, pc |-> FirstPc(call.op), id |-> id,
                            blob |-> call.blob, result |-> <<>>]]
    /\ res' = [op |-> "step"]
    /\ MMApply(Ctx)
    /\ StepFrame

\* save_model: the cache check.
SaveCheck(h) ==
    /\ handlers[h].pc = "save_check"
    /\ MMApply(Ctx)
    /\ IF is_model_in_cache(Ctx, handlers[h].id)
       THEN Done(h, "fail", "AlreadyExists")
       ELSE Goto(h, "save_db", <<>>)
    /\ StepFrame

\* save_model: _save_model_in_db.
SaveDb(h) ==
    /\ handlers[h].pc = "save_db"
    /\ LET c == save_model_in_db(Ctx, handlers[h].blob, handlers[h].id, 0) IN
       /\ MMApply(c)
       /\ IF c.exc = "IntegrityError" THEN Goto(h, "get_check", <<>>)
          ELSE IF c.exc # "" THEN Done(h, "fail", c.exc)
          ELSE Goto(h, "save_cache", <<>>)
    /\ StepFrame

\* save_model: deserialize and save_model_to_cache.
SaveCache(h) ==
    /\ handlers[h].pc = "save_cache"
    /\ IF ~CanDeserialize(handlers[h].blob)
       THEN MMApply(Ctx) /\ Done(h, "raise", "DeserializeError")
       ELSE LET model == Deserialize(handlers[h].blob) IN
            /\ MMApply(save_model_to_cache(Ctx, model, handlers[h].id, FALSE))
            /\ IF model.isPlan
               THEN Goto(h, "save_states", <<>>)
               ELSE Done(h, "ok", "")
    /\ StepFrame

\* save_model: _save_states_in_db, for a Plan.
SaveStates(h) ==
    /\ handlers[h].pc = "save_states"
    /\ LET c == save_states_in_db(Ctx, Deserialize(handlers[h].blob), 0) IN
       /\ MMApply(c)
       /\ IF c.exc = "" THEN Done(h, "ok", "")
          ELSE IF c.exc = "IntegrityError" THEN Goto(h, "get_check", <<>>)
          ELSE IF c.exc = "SQLAlchemyError" THEN Done(h, "fail", c.exc)
          ELSE Done(h, "raise", c.exc)
    /\ StepFrame

\* save_model's except clause, after get_model_with_id: save_model_to_cache
\* with the result dict, and the failure is returned.
RepairCache(h) ==
    /\ handlers[h].pc = "repair_cache"
    /\ LET c == save_model_to_cache(Ctx, NoModel, handlers[h].id, TRUE) IN
       /\ MMApply(c)
       /\ IF c.exc # "" THEN Done(h, "raise", c.exc)
          ELSE Done(h, "fail", "IntegrityError")
    /\ StepFrame

\* get_model_with_id: the cache check.
GetCheck(h) ==
    /\ handlers[h].pc = "get_check"
    /\ MMApply(Ctx)
    /\ IF is_model_in_cache(Ctx, handlers[h].id)
       THEN GetReturns(h, "ok", "")
       ELSE Goto(h, "get_db", <<>>)
    /\ StepFrame

\* get_model_with_id: _get_model_from_db.
GetDb(h) ==
    /\ handlers[h].pc = "get_db"
    /\ MMApply(Ctx)
    /\ IF handlers[h].id \notin DOMAIN db_models
       THEN GetReturns(h, "fail", "NotFound")
       ELSE Goto(h, "get_fill", db_models[handlers[h].id])
    /\ StepFrame

\* get_model_with_id: deserialize, _retrieve_state for a Plan, and
\* save_model_to_cache.
GetFill(h) ==
    /\ handlers[h].pc = "get_fill"
    /\ IF ~CanDeserialize(handlers[h].result)
       THEN MMApply(Ctx) /\ Done(h, "raise", "DeserializeError")
       ELSE LET model == Deserialize(handlers[h].result)
                c == IF model.isPlan
                     THEN retrieve_state(Ctx, model.state_ids, 0)
                     ELSE Ctx
            IN IF c.exc = "SQLAlchemyError"
               THEN MMApply(c) /\ GetReturns(h, "fail", c.exc)
               ELSE IF c.exc # ""
                    THEN MMApply(c) /\ Done(h, "raise", c.exc)
               ELSE /\ MMApply(save_model_to_cache(c, model, handlers[h].id, FALSE))
                    /\ GetReturns(h, "ok", "")
    /\ StepFrame

\* delete_model: remove_model_from_cache.
DeleteCache(h) ==
    /\ handlers[h].pc = "delete_cache"
    /\ MMApply(remove_model_from_cache(Ctx, handlers[h].id))
    /\ Goto(h, "delete_query", <<>>)
    /\ StepFrame

\* delete_model: the query, and db.session.delete of what it found.
DeleteQuery(h) ==
    /\ handlers[h].pc = "delete_query"
    /\ MMApply(Ctx)
    /\ IF handlers[h].id \notin DOMAIN db_models
       THEN Done(h, "fail", "UnmappedInstanceError")
       ELSE Goto(h, "delete_commit", <<>>)
    /\ StepFrame

\* delete_model: the commit. When another handler deleted the record in
\* between, the DELETE matches no row, which the database layer reports with
\* a warning or with an error.
DeleteCommit(h) ==
    /\ handlers[h].pc = "delete_commit"
    /\ MMApply([Ctx EXCEPT !.models = Del(@, handlers[h].id)])
    /\ IF handlers[h].id \in DOMAIN db_models
       THEN Done(h, "ok", "")
       ELSE \E outcome \in {"ok", "fail"} :
                Done(h, outcome, IF outcome = "ok" THEN "" ELSE "StaleDataError")
    /\ StepFrame

\* Requests served by handlers that run side by side.
NextConcurrent ==
    \E h \in Handlers :
        \/ Call(h)
        \/ SaveCheck(h)
        \/ SaveDb(h)
        \/ SaveCache(h)
        \/ SaveStates(h)
        \/ RepairCache(h)
        \/ GetCheck(h)
        \/ GetDb(h)
        \/ GetFill(h)
        \/ DeleteCache(h)
        \/ DeleteQuery(h)
        \/ DeleteCommit(h)

SpecConcurrent == Init /\ [][NextConcurrent]_vars

\* The Model Manager's requests on a node whose relay executes commands.
Next ==
    \/ Save
    \/ Get
    \/ Delete
    \/ List
    \/ ClearCache
    \/ CmdQuiet

Spec == Init /\ [][Next]_vars

\* The command relay with every kind of message and failure.
NextRelay ==
    \/ Cmd
    \/ Restart

SpecRelay == Init /\ [][NextRelay]_vars

\* The Model Manager's requests with failing database calls.
NextFaults ==
    \/ SaveF
    \/ GetF
    \/ DeleteF
    \/ ListF
    \/ ClearCache
    \/ CmdQuiet

SpecFaults == Init /\ [][NextFaults]_vars

\* The node registry's events.
NextRegistry ==
    \/ ConnectNode
    \/ Restart

SpecRegistry == Init /\ [][NextRegistry]_vars

\* The requests on one model id with a database that answers every call.
SaveOne == SaveOn({"m1"}, {0})

GetOne == GetOn({"m1"}, {0})

\* A node that restarts while the Model Manager serves requests and the
\* relay executes commands, none of which fails.
NextRecovery ==
    \/ SaveOne
    \/ GetOne
    \/ CmdQuiet
    \/ Restart

SpecRecovery == Init /\ [][NextRecovery]_vars

\* ------------------------------------------------------------------ claims

DuplicateSignals == {"AlreadyExists", "IntegrityError"}

\* C1 (idempotent save): once save(blob1, id) has succeeded and no delete of
\* id has been issued, every later save(blob2, id) reports failure with a
\* duplicate signal and leaves the history of id alone, and every get(id)
\* succeeds with the model deserialized from blob1.
C1_IdempotentSave ==
    [][/\ (res'.op = "save" /\ saved[res'.id] \in Blobs) =>
              /\ res'.outcome = "fail"
              /\ res'.err \in DuplicateSignals
              /\ db_models'[res'.id] = saved[res'.id]
       /\ (res'.op = "get" /\ saved[res'.id] \in Blobs) =>
              /\ res'.outcome = "ok"
              /\ res'.model = Deserialize(saved[res'.id])]_vars

\* C1 witness: a second save, with another blob, of an id that was saved and
\* then dropped from the cache, rejected by the store.
C1_Witness ==
    /\ res.op = "save"
    /\ res.outcome = "fail"
    /\ res.err = "IntegrityError"
    /\ saved[res.id] \in Blobs
    /\ res.blob # saved[res.id]
    /\ CanDeserialize(res.blob)

\* C2 (cache/store coherence): a get(id) that follows a successful
\* save(blob, id) with no clearCache or delete of id in between succeeds,
\* makes no call to the persistent store and returns deserialize(blob).
C2_CacheHitAfterSave ==
    (res.op = "get" /\ res.id \in fresh) =>
        /\ res.outcome = "ok"
        /\ DbCalls(res.trace) = 0
        /\ saved[res.id] \in Blobs
        /\ res.model = Deserialize(saved[res.id])

\* C2 witness: such a get of a Plan, with another request in between.
C2_Witness ==
    /\ res.op = "get"
    /\ res.id \in fresh
    /\ res.model.isPlan
    /\ res.trace = <<>>
    /\ Cardinality(DOMAIN model_cache) = 2

\* C3 (delete completeness): after a successful delete(id), and until the
\* next save of id, id is in neither the cache nor the persistent store,
\* get(id) fails with not-found, and list() succeeds without id.
C3_DeleteCompleteness ==
    /\ \A id \in ModelIds :
           saved[id] = Deleted =>
               id \notin DOMAIN model_cache /\ id \notin DOMAIN db_models
    /\ (res.op = "get" /\ saved[res.id] = Deleted) =>
           res.outcome = "fail" /\ res.err = "NotFound"
    /\ res.op = "list" =>
           /\ res.outcome = "ok"
           /\ \A id \in ModelIds : saved[id] = Deleted => id \notin res.ids

\* C3 witness: a list() after a delete that still lists the other model.
C3_Witness ==
    /\ res.op = "list"
    /\ \E id \in ModelIds : saved[id] = Deleted
    /\ res.ids # {}

\* The events of a trace named name with argument arg all come before the
\* first event named later.
AllBefore(tr, name, arg, later) ==
    /\ PositionsOf(tr, name, arg) # {}
    /\ \A i \in PositionsOf(tr, name, arg) : \A j \in Positions(tr, later) : i < j

\* C4 (Plan rehydration): a get that loads a Plan from the persistent store
\* and succeeds has registered, for every state id of the Plan, the tensor
\* record's payload in the object store before the cache insert and the
\* return.
C4_PlanRehydration ==
    (/\ res.op = "get"
     /\ res.outcome = "ok"
     /\ res.model.isPlan
     /\ DbCalls(res.trace) > 0) =>
        /\ Positions(res.trace, "cache_put") # {}
        /\ \A sid \in SeqRange(res.model.state_ids) :
               /\ AllBefore(res.trace, "register", sid, "cache_put")
               /\ sid \in DOMAIN objects
               /\ sid \in DOMAIN db_tensors
               /\ objects[sid] = db_tensors[sid]

\* C4 witness: a Plan with two state ids, saved successfully, is loaded
\* again after the cache was cleared.
C4_Witness ==
    /\ res.op = "get"
    /\ res.outcome = "ok"
    /\ res.model.isPlan
    /\ Len(res.model.state_ids) = 2
    /\ DbCalls(res.trace) > 0
    /\ saved[res.id] \in Blobs

\* A /cmd run in which some step fails: recovery (when it runs), the lookup
\* or decoding of the payload, the engine, the snapshot.
CmdFailed(r) ==
    \/ r.cold /\ r.failAt = "recover"
    \/ ~WellFormed(r.message)
    \/ r.failAt \in {"engine", "snapshot"}

\* A /cmd run whose engine call was made and returned.
EngineSucceeded(r) ==
    /\ ~(r.cold /\ r.failAt = "recover")
    /\ WellFormed(r.message)
    /\ r.failAt # "engine"

\* C5 (relay never throws): every /cmd message gets exactly one
\* /cmd-response: the engine's response in transport encoding when every
\* step succeeds, and the text of the error otherwise.
C5_RelayNeverThrows ==
    res.op = "cmd" =>
        /\ Len(res.emits) = 1
        /\ Cardinality(Positions(res.trace, "emit")) = 1
        /\ IF CmdFailed(res)
           THEN res.emits[1].isError /\ res.emits[1].error # ""
           ELSE /\ ~res.emits[1].isError
                /\ CanUnhexlify(StripBytesLiteral(res.emits[1].payload))
                /\ unhexlify(StripBytesLiteral(res.emits[1].payload)) = res.resp

\* C5 witness: a payload that is no hexadecimal text is answered with the
\* decoding error.
C5_Witness ==
    /\ res.op = "cmd"
    /\ res.message.has
    /\ ~WellFormed(res.message)
    /\ Len(res.emits) = 1
    /\ res.emits[1].error = "binascii.Error"

\* C6 (cold-check): a well-formed command that finds the object store empty
\* invokes recovery exactly once, before the engine is called; a command
\* that finds an object in the store invokes no recovery.
C6_ColdCheck ==
    res.op = "cmd" =>
        /\ (res.cold /\ WellFormed(res.message)) =>
               /\ Cardinality(Positions(res.trace, "recover")) = 1
               /\ \A i \in Positions(res.trace, "recover") :
                      \A j \in Positions(res.trace, "execute") : i < j
        /\ ~res.cold => Positions(res.trace, "recover") = {}

\* C6 witness: a cold start over a snapshot that holds objects, recovered
\* and then executed on.
C6_Witness ==
    /\ res.op = "cmd"
    /\ res.cold
    /\ WellFormed(res.message)
    /\ Positions(res.trace, "execute") # {}
    /\ Cardinality(DOMAIN objects) = 2

C8_NeverRaises ==
    res.op \in {"save", "get", "delete", "list"} => res.outcome \in {"ok", "fail"}

\* C9 (registry idempotence): no peer has more than one connection, and a
\* connectNode for a peer already known makes no connection attempt, reports
\* no error and leaves the registry as it was.
C9_RegistryIdempotence ==
    /\ \A p \in PeerIds : Cardinality({c \in connections : c.id = p}) <= 1
    /\ (/\ res.op = "connect_node"
        /\ res.msg.hasId
        /\ res.msg.id \in DOMAIN res.known_before) =>
           /\ Positions(res.trace, "connect_attempt") = {}
           /\ \A i \in 1..Len(res.emits) : ~res.emits[i].isError
           /\ known_workers = res.known_before
           /\ connections = res.conns_before

\* C9 witness: a second connectNode for a connected peer, with another uri.
C9_Witness ==
    /\ res.op = "connect_node"
    /\ res.msg.hasId
    /\ res.msg.id \in DOMAIN res.known_before
    /\ res.known_before[res.msg.id] # res.msg.uri
    /\ \E c \in connections : c.id = res.msg.id

\* C10 (uniqueness-violation repair): a save of an id that has a record
\* (of a model) in the persistent store and no cache entry returns failure,
\* leaves the record as it was, and leaves the stored model in the cache.
C10_RepairOnDuplicate ==
    [][(/\ res'.op = "save"
        /\ res'.id \notin DOMAIN model_cache
        /\ res'.id \in DOMAIN db_models
        /\ CanDeserialize(db_models[res'.id])) =>
           /\ res'.outcome = "fail"
           /\ res'.id \in DOMAIN db_models'
           /\ db_models'[res'.id] = db_models[res'.id]
           /\ res'.id \in DOMAIN model_cache'
           /\ model_cache'[res'.id] = Deserialize(db_models[res'.id])]_vars

\* C11 (at most one persisted copy): the table of model records holds one
\* blob per id, and a save of an id that has a record, whatever the database
\* does during the call, does not succeed and leaves that record's blob as
\* it was.
C11_AtMostOnePersistedCopy ==
    [][/\ \A id \in DOMAIN db_models' : db_models'[id] \in Blobs
       /\ (res'.op = "save" /\ res'.id \in DOMAIN db_models) =>
              /\ res'.outcome # "ok"
              /\ res'.id \in DOMAIN db_models'
              /\ db_models'[res'.id] = db_models[res'.id]]_vars

\* C11 witness: a save of another blob reaches the store, which holds a Plan
\* under that id, and is rejected by the primary key.
C11_Witness ==
    /\ res.op = "save"
    /\ res.err = "IntegrityError"
    /\ res.id \in DOMAIN db_models
    /\ db_models[res.id] # res.blob
    /\ CanDeserialize(db_models[res.id])
    /\ Deserialize(db_models[res.id]).isPlan

\* C12 (list is sourced from the persistent store): a list() that succeeds
\* returns exactly the ids that have a model record, whatever the cache
\* holds, and no list() changes the cache or the persistent store.
C12_ListFromStore ==
    [][res'.op = "list" =>
          /\ res'.outcome = "ok" => res'.ids = DOMAIN db_models
          /\ model_cache' = model_cache
          /\ db_models' = db_models
          /\ db_tensors' = db_tensors]_vars

\* C12 witness: a list() of two stored models of which the cache holds one.
C12_Witness ==
    /\ res.op = "list"
    /\ res.outcome = "ok"
    /\ Cardinality(res.ids) = 2
    /\ Cardinality(DOMAIN model_cache) = 1

\* The object store the engine of a /cmd run was called on: the recovered
\* snapshot when the run recovered, the store as the run found it otherwise.
RanOn(tr, store, image) ==
    IF Positions(tr, "recover") # {} THEN image ELSE store

\* C13 (recovery after restart): whatever requests and commands follow a
\* restart, the first command the engine is called for runs on an object
\* store that holds every object of the snapshot the restart found, and the
\* snapshot never loses an object of that snapshot that no command removed.
C13_RecoveryAfterRestart ==
    [][/\ (/\ res'.op = "cmd"
           /\ Positions(res'.trace, "execute") # {}
           /\ boot.first) =>
              \A k \in boot.kept :
                  /\ k \in DOMAIN RanOn(res'.trace, objects, snapshot_img)
                  /\ RanOn(res'.trace, objects, snapshot_img)[k] = snapshot_img[k]
       /\ boot'.kept \subseteq DOMAIN snapshot_img']_vars

\* C14 (recovery invariant): after every command of a node whose object
\* store has been loaded, the object store is the last durable snapshot
\* changed by what at most one command does to it, so that a restart and
\* recovery lose at most the last command's effects.
C14_AtMostOneCommandBehind ==
    (res.op = "cmd" /\ ~boot.first) =>
        \E eff \in EngineEffects : objects = ApplyEffect(snapshot_img, eff)

\* Every cache entry is the deserialized model record of its id.
CacheMirrorsStore ==
    \A id \in DOMAIN model_cache :
        /\ id \in DOMAIN db_models
        /\ CanDeserialize(db_models[id])
        /\ model_cache[id] = Deserialize(db_models[id])

\* C15 (serialized access): with save, get and delete on one model id run by
\* handlers side by side, no state has a cache entry without a model record
\* or a cache entry that differs from the deserialized record.
C15_NoPartialRecord ==
    (res.op \in {"step", "done"}) => CacheMirrorsStore

\* C16 (the cache mirrors a subset of the store): after any sequence of
\* save, get, delete, list and clearCache calls, each run to completion and
\* whatever each returns, every id in the cache has a model record and the
\* cached model is the deserialization of that record's blob.
C16_CacheMirrorsSubset ==
    (res.op \in {"init", "save", "get", "delete", "list", "clear_cache", "cmd"}) =>
        CacheMirrorsStore

\* C16 witness: a save that the store rejected has put the stored Plan in
\* the cache.
C16_Witness ==
    /\ res.op = "save"
    /\ res.outcome = "fail"
    /\ res.err = "IntegrityError"
    /\ res.id \in DOMAIN model_cache
    /\ model_cache[res.id].isPlan
    /\ CanDeserialize(res.blob)
    /\ Deserialize(res.blob) # model_cache[res.id]

\* C17 (cached Plans are ready to execute): every state id of every Plan in
\* the cache is registered in the object store.
C17_CachedPlansReady ==
    \A id \in DOMAIN model_cache :
        model_cache[id].isPlan =>
            \A sid \in SeqRange(model_cache[id].state_ids) : sid \in DOMAIN objects

\* A get(id) that directly follows a delete(id) which returned failure.
GetAfterFailedDelete(d, g) ==
    /\ d.op = "delete"
    /\ d.outcome = "fail"
    /\ g.op = "get"
    /\ g.id = d.id

\* The stored record of id can be loaded: it deserializes, and the tensor
\* records of a Plan's state ids are there.
Loadable(id) ==
    /\ id \in DOMAIN db_models
    /\ CanDeserialize(db_models[id])
    /\ \A sid \in SeqRange(Deserialize(db_models[id]).state_ids) :
           sid \in DOMAIN db_tensors

\* C18 as stated (failed delete): after a delete(id) that returned failure
\* the cache has no entry for id, and a following get(id) does not return
\* the model.
C18_Original ==
    [][/\ (res'.op = "delete" /\ res'.outcome = "fail") =>
              res'.id \notin DOMAIN model_cache'
       /\ GetAfterFailedDelete(res, res') => res'.outcome # "ok"]_vars

\* C18 as amended: a delete(id) that returns failure has removed the cache
\* entry of id and left the persistent store as it was. When there is no
\* record, a following get(id) that the store answers fails with not-found;
\* when the record is still there and can be loaded, that get returns its
\* model and puts it in the cache again.
C18_FailedDelete ==
    [][/\ (res'.op = "delete" /\ res'.outcome = "fail") =>
              /\ res'.id \notin DOMAIN model_cache'
              /\ db_models' = db_models
              /\ db_tensors' = db_tensors
       /\ (GetAfterFailedDelete(res, res') /\ ~res'.faulted) =>
              IF res'.id \notin DOMAIN db_models
              THEN res'.outcome = "fail" /\ res'.err = "NotFound"
              ELSE Loadable(res'.id) =>
                       /\ res'.outcome = "ok"
                       /\ res'.model = Deserialize(db_models[res'.id])
                       /\ res'.id \in DOMAIN model_cache'
                       /\ model_cache'[res'.id] = res'.model]_vars

\* C18 witness: a delete whose commit failed has dropped the cache entry of
\* a Plan whose record, with its tensor record, is still in the store.
C18_Witness ==
    /\ res.op = "delete"
    /\ res.outcome = "fail"
    /\ res.faulted
    /\ Positions(res.trace, "cache_del") # {}
    /\ Positions(res.trace, "db_commit") # {}
    /\ res.id \notin DOMAIN model_cache
    /\ Loadable(res.id)
    /\ Deserialize(db_models[res.id]).isPlan

\* A save of a Plan that wrote the model record, went on to persist the
\* state tensors, and did not succeed.
SaveTensorsFailed(r) ==
    /\ r.op = "save"
    /\ Positions(r.trace, "get_obj") # {}
    /\ r.outcome # "ok"

\* C19 (partial-failure policy of save): a save of a Plan that wrote the
\* model record and then failed to persist the state tensors returns
\* failure, leaves the record in the store and the model in the cache; a
\* save of the same id that follows reports already-exists, and a get of
\* that id that follows succeeds.
C19_PartialFailurePolicy ==
    [][/\ SaveTensorsFailed(res') =>
              /\ res'.outcome = "fail"
              /\ res'.id \in DOMAIN db_models'
              /\ db_models'[res'.id] = res'.blob
              /\ res'.id \in DOMAIN model_cache'
              /\ model_cache'[res'.id] = Deserialize(res'.blob)
       /\ (SaveTensorsFailed(res) /\ res'.op = "save" /\ res'.id = res.id) =>
              res'.outcome = "fail" /\ res'.err = "AlreadyExists"
       /\ (SaveTensorsFailed(res) /\ res'.op = "get" /\ res'.id = res.id) =>
              res'.outcome = "ok" /\ res'.model = Deserialize(res.blob)]_vars

\* A save of a Plan under an id whose last save or delete call was a
\* successful delete, with the state tensors still registered and their
\* records, written by an earlier save, still in the store.
ResaveAfterDelete(id, blob) ==
    /\ saved[id] = Deleted
    /\ CanDeserialize(blob)
    /\ Deserialize(blob).isPlan
    /\ \A sid \in SeqRange(Deserialize(blob).state_ids) :
           sid \in DOMAIN db_tensors /\ sid \in DOMAIN objects

\* C20 (delete leaves tensor records in place): a delete changes no tensor
\* record and nothing else than the cache entry and the model record of its
\* id; a save of a Plan that follows a successful delete of its id, with
\* state ids whose tensor records exist, returns failure with the tensor-id
\* uniqueness violation, having written the model record again and put the
\* model in the cache.
C20_DeleteKeepsTensors ==
    [][/\ res'.op = "delete" =>
              /\ db_tensors' = db_tensors
              /\ objects' = objects
              /\ \A id \in ModelIds \ {res'.id} :
                     /\ (id \in DOMAIN db_models) = (id \in DOMAIN db_models')
                     /\ (id \in DOMAIN model_cache) = (id \in DOMAIN model_cache')
       /\ (res'.op = "save" /\ ResaveAfterDelete(res'.id, res'.blob)) =>
              /\ res'.outcome = "fail"
              /\ res'.err = "IntegrityError"
              /\ db_tensors' = db_tensors
              /\ res'.id \in DOMAIN db_models'
              /\ db_models'[res'.id] = res'.blob
              /\ res'.id \in DOMAIN model_cache'
              /\ model_cache'[res'.id] = Deserialize(res'.blob)]_vars

\* C20 witness: the second save of a Plan with two state ids, after its
\* delete: the model record was written, the tensor records were rejected.
C20_Witness ==
    /\ res.op = "save"
    /\ res.outcome = "fail"
    /\ res.err = "IntegrityError"
    /\ PositionsOf(res.trace, "db_commit", 1) # {}
    /\ res.id \in DOMAIN model_cache
    /\ db_models[res.id] = res.blob
    /\ Len(model_cache[res.id].state_ids) = 2

====
